---- MODULE Spec2Model ----
(***************************************************************************)
(* Model of the sensor-rendering synchronisation of the Sensors system     *)
(* (src/src/systems/sensors/Sensors.cc): the simulation thread that calls  *)
(* PostUpdate, the render thread that runs RunLoop, and a thread that      *)
(* calls Stop.  Every access to shared data that the code makes outside    *)
(* renderMutex (running, initialized, sensorMask, sensorIds, the pending   *)
(* sensors of renderUtil) is an action of its own; a critical section that *)
(* touches only data read and written under renderMutex is one action.     *)
(*                                                                         *)
(* Time is counted in ticks.  A sensor's nominal period 1/UpdateRate() is  *)
(* Period(s) ticks, so the suppression interval 0.9/UpdateRate() of        *)
(* RunLoop is MaskDelta(s) ticks.                                          *)
(***************************************************************************)
EXTENDS Integers, Sequences, FiniteSets

\* ------------------------------------------------------------------ bounds
\* Number of PostUpdate calls (simulation steps) explored.
MaxSteps == 4
\* Simulation time added by one simulation step, in ticks.
StepDt == 5
\* Number of sensor entities that can appear in the entity component manager.
NumSensors == 1
\* Number of calls of Stop explored (the stop event, then the destructor).
MaxStops == 2

Sensors == 1..NumSensors

\* 1/UpdateRate() of a sensor with a positive update rate, in ticks.
Period(s) == 10

\* What the descriptor of a sensor entity leads to in CreateSensor:
\*   "camera"  a rendering sensor with a positive update rate,
\*   "rate0"   a rendering sensor whose update rate is 0,
\*   "none"    the sdf type of the descriptor is sdf::SensorType::NONE,
\*   "fails"   sensorManager.CreateSensor returns NO_SENSOR and
\*             sensorManager.Sensor(NO_SENSOR) returns nullptr,
\*   "plain"   the sensor is created but is not a sensors::RenderingSensor.
Kinds == {"camera", "rate0", "none", "fails", "plain"}

\* sensors::NO_SENSOR, the identifier of no sensor.
NoSensor == 0

\* A time later than every simulation time explored.
Forever == (MaxSteps + 2) * StepDt

\* Sentinel of sensorMask.find(id) == sensorMask.end(): no entry for the id.
NoMask == -1

Threads == {"producer", "render"}

VARIABLES
  running,          \* std::atomic<bool> running
  initialized,      \* bool initialized (read by PostUpdate without a lock)
  scene,            \* TRUE when renderUtil.Init() ran and scene was resolved
  doInit,           \* bool doInit
  updateAvailable,  \* bool updateAvailable
  updateTime,       \* common::Time updateTime
  activeSensors,    \* std::vector<RenderingSensor *> activeSensors (as a set)
  sensorIds,        \* std::set<SensorId> sensorIds
  sensorMask,       \* std::map<SensorId, Time> sensorMask
  nextUpdate,       \* NextUpdateTime() of every sensor of the sensor manager
  ecm,              \* entities with a rendering sensor component in the ECM
  seen,             \* entities renderUtil.UpdateFromECM already handled
  pending,          \* sensors of renderUtil awaiting creation (PendingSensors)
  renderMutex,      \* owner of renderMutex, or "free"
  waiters,          \* threads blocked in renderCv.wait
  rpc,              \* position of the render thread in RunLoop
  ppc,              \* position of the simulation thread in PostUpdate
  spc,              \* position of the thread calling Stop
  localActive,      \* the local activeSensors vector of PostUpdate
  simTime,          \* _info.simTime of the current PostUpdate call
  steps,            \* number of PostUpdate calls made
  submitted,        \* history: cycles installed by PostUpdate, in order
  rendered,         \* history: cycles the render pass read, in order
  completed,        \* history: number of render passes completed
  lastSel,          \* history: the time each sensor was last selected at, if any
  selGap,           \* history: time between a sensor's last two selections, if any
  stoppedAtCall,    \* history: running was false when PostUpdate was called
  joinable,         \* renderThread.joinable()
  stopCalls,        \* number of calls of Stop made
  initCount,        \* history: number of times the worker ran renderUtil.Init()
  kind,             \* what the descriptor of each sensor entity leads to
  results,          \* history: what CreateSensor returned for each entity
  faults,           \* history: faulty evaluations made so far
  racedIds          \* ids inserted into sensorIds while PostUpdate iterates it

vars == <<running, initialized, scene, doInit, updateAvailable, updateTime,
          activeSensors, sensorIds, sensorMask, nextUpdate, ecm, seen, pending,
          renderMutex, waiters, rpc, ppc, spc, localActive, simTime, steps,
          submitted, rendered, completed, lastSel, selGap, stoppedAtCall,
          joinable, stopCalls, initCount, kind, results, faults, racedIds>>

sensVars == <<sensorIds, sensorMask, nextUpdate>>
utilVars == <<ecm, seen, pending>>
prodVars == <<ppc, localActive, simTime, steps>>
histVars == <<submitted, rendered, completed, lastSel, selGap, stoppedAtCall,
              initCount>>
stopVars == <<joinable, stopCalls>>
inputVars == <<kind, results, faults, racedIds>>

\* The coordinator state of the claims about Stop.
coordinator == <<doInit, updateAvailable, activeSensors, updateTime, initialized>>

\* ----------------------------------------------------------------- helpers
\* 0.9 / sensor->UpdateRate() as a time, in ticks.
MaskDelta(s) == (9 * Period(s)) \div 10

\* The sets of waiting threads renderCv.notify_one() can leave behind.
NotifyOne(w) == IF w = {} THEN {w} ELSE {w \ {th} : th \in w}

\* Positions of RunLoop inside one render pass (renderMutex held).
RenderPass == {"render_update", "render_sensors", "complete"}

\* Positions of RunLoop inside the wait-for-init loop.
InitPhase == {"init_check", "init_lock", "init_wait", "init_body", "init_ack"}

\* The state after construction, whatever the descriptors of the entities are.
InitState ==
  /\ running = FALSE
  /\ initialized = FALSE
  /\ scene = FALSE
  /\ doInit = FALSE
  /\ updateAvailable = FALSE
  /\ updateTime = 0
  /\ activeSensors = {}
  /\ sensorIds = {}
  /\ sensorMask = [s \in Sensors |-> NoMask]
  /\ nextUpdate = [s \in Sensors |-> 0]
  /\ ecm = {}
  /\ seen = {}
  /\ pending = {}
  /\ renderMutex = "free"
  /\ waiters = {}
  /\ rpc = "not_started"
  /\ ppc = "idle"
  /\ spc = "idle"
  /\ localActive = {}
  /\ simTime = 0
  /\ steps = 0
  /\ submitted = <<>>
  /\ rendered = <<>>
  /\ completed = 0
  /\ lastSel = [s \in Sensors |-> {}]
  /\ selGap = [s \in Sensors |-> {}]
  /\ stoppedAtCall = FALSE
  /\ joinable = FALSE
  /\ stopCalls = 0
  /\ initCount = 0
  /\ results = [s \in Sensors |-> "unset"]
  /\ faults = {}
  /\ racedIds = {}

\* Every sensor entity is a rendering sensor with a positive update rate.
Init ==
  /\ InitState
  /\ kind = [s \in Sensors |-> "camera"]

\* The sensor entities have descriptors of any kind.
InitAnyKind ==
  /\ InitState
  /\ kind \in [Sensors -> Kinds]

\* Sensors::Configure: sets running and starts the render thread.
Configure ==
  /\ rpc = "not_started"
  /\ running' = TRUE
  /\ rpc' = "init_check"
  /\ joinable' = TRUE
  /\ UNCHANGED <<initialized, scene, doInit, updateAvailable, updateTime,
                 activeSensors, sensorIds, sensorMask, nextUpdate, ecm, seen,
                 pending, renderMutex, waiters, ppc, spc, localActive, simTime,
                 steps, submitted, rendered, completed, lastSel, selGap,
                 stoppedAtCall, initCount, stopCalls,
                 inputVars>>

\* ------------------------------------------------------- the render thread
\* A wait-for-init loop that goes on as long as running is true.
InitLoopCondNoInitCheck == running

\* RunLoop, condition of the wait-for-init loop.
InitLoopCond == ~initialized /\ running

\* RunLoop: evaluates the condition of the wait-for-init loop (no lock held).
InitLoopCheck ==
  /\ rpc = "init_check"
  /\ rpc' = IF InitLoopCond THEN "init_lock" ELSE "loop_check"
  /\ UNCHANGED <<running, initialized, scene, doInit, updateAvailable,
                 updateTime, activeSensors, sensVars, utilVars, renderMutex,
                 waiters, spc, prodVars, histVars, stopVars,
                 inputVars>>

\* RunLoop: locks renderMutex and calls renderCv.wait(lock), which has no
\* predicate: the thread blocks whatever the flags are.
InitLoopWait ==
  /\ rpc = "init_lock"
  /\ renderMutex = "free"
  /\ waiters' = waiters \cup {"render"}
  /\ rpc' = "init_wait"
  /\ UNCHANGED <<running, initialized, scene, doInit, updateAvailable,
                 updateTime, activeSensors, sensVars, utilVars, renderMutex,
                 spc, prodVars, histVars, stopVars,
                 inputVars>>

\* RunLoop: renderCv.wait(lock) returns once woken, with renderMutex held.
InitLoopWake ==
  /\ rpc = "init_wait"
  /\ "render" \notin waiters
  /\ renderMutex = "free"
  /\ renderMutex' = "render"
  /\ rpc' = "init_body"
  /\ UNCHANGED <<running, initialized, scene, doInit, updateAvailable,
                 updateTime, activeSensors, sensVars, utilVars, waiters, spc,
                 prodVars, histVars, stopVars,
                 inputVars>>

\* An initialization that sets initialized on every wake-up, requested or not.
InitResultUnrequested == <<TRUE, IF doInit THEN TRUE ELSE scene>>

\* RunLoop: if (doInit) { renderUtil.Init(); scene = ...; initialized = true; }
\* as the pair <<initialized, scene>> it leaves.
InitResult == IF doInit THEN <<TRUE, TRUE>> ELSE <<initialized, scene>>

\* RunLoop: the body of the wait-for-init loop up to the initialization.
DoInit ==
  /\ rpc = "init_body"
  /\ initialized' = InitResult[1]
  /\ scene' = InitResult[2]
  /\ initCount' = IF doInit THEN initCount + 1 ELSE initCount
  /\ rpc' = "init_ack"
  /\ UNCHANGED <<running, doInit, updateAvailable, updateTime, activeSensors,
                 sensVars, utilVars, renderMutex, waiters, spc, prodVars,
                 submitted, rendered, completed, lastSel, selGap,
                 stoppedAtCall, stopVars,
                 inputVars>>

\* RunLoop: updateAvailable = false; renderCv.notify_one(); end of the loop
\* body releases renderMutex.
CompleteInit ==
  /\ rpc = "init_ack"
  /\ updateAvailable' = FALSE
  /\ waiters' \in NotifyOne(waiters)
  /\ renderMutex' = "free"
  /\ rpc' = "init_check"
  /\ UNCHANGED <<running, initialized, scene, doInit, updateTime,
                 activeSensors, sensVars, utilVars, spc, prodVars, histVars, stopVars,
                 inputVars>>

\* RunLoop: evaluates while (running) of the cycle loop (no lock held).
CycleLoopCheck ==
  /\ rpc = "loop_check"
  /\ rpc' = IF running THEN "cycle_lock" ELSE "done"
  /\ UNCHANGED <<running, initialized, scene, doInit, updateAvailable,
                 updateTime, activeSensors, sensVars, utilVars, renderMutex,
                 waiters, spc, prodVars, histVars, stopVars,
                 inputVars>>

\* A wait for a cycle whose predicate does not look at running.
CyclePredNoStop == updateAvailable

\* RunLoop: the predicate of the wait for a cycle.
CyclePred == ~running \/ updateAvailable

\* A cycle loop that never breaks after its wait.
StopObservedNever == FALSE

\* RunLoop: if (!running) break; after the wait for a cycle.
StopObserved == ~running

\* RunLoop: locks renderMutex (or re-locks it after a wake-up) and evaluates
\* the wait predicate; blocks when it is false, breaks out of the loop when
\* running is false, and otherwise starts a render pass with the lock held.
TakeCycle ==
  /\ \/ rpc = "cycle_lock"
     \/ rpc = "cycle_wait" /\ "render" \notin waiters
  /\ renderMutex = "free"
  /\ IF ~CyclePred
       THEN /\ waiters' = waiters \cup {"render"}
            /\ rpc' = "cycle_wait"
            /\ UNCHANGED renderMutex
       ELSE IF StopObserved
         THEN /\ rpc' = "done"
              /\ UNCHANGED <<renderMutex, waiters>>
         ELSE /\ renderMutex' = "render"
              /\ rpc' = "render_update"
              /\ UNCHANGED waiters
  /\ UNCHANGED <<running, initialized, scene, doInit, updateAvailable,
                 updateTime, activeSensors, sensVars, utilVars, spc, prodVars,
                 histVars, stopVars,
                 inputVars>>

\* A CreateSensor without the check of the sdf type.
TypeKnownAlways(s) == TRUE

\* CreateSensor: _sdf.Type() is not sdf::SensorType::NONE.
TypeKnown(s) == kind[s] # "none"

\* CreateSensor: the identifier sensorManager.CreateSensor(_sdf) returns.
CreatedId(s) == IF kind[s] = "fails" THEN NoSensor ELSE s

\* CreateSensor: dynamic_cast<sensors::RenderingSensor *>(sensor) is not null.
Rendering(s) == kind[s] \in {"camera", "rate0"}

\* Sensors::CreateSensor for the pending sensors ids: nothing is done for a
\* descriptor of type NONE; the identifier of every other one is inserted into
\* sensorIds before it is looked at.
CreateSensor(ids) == sensorIds \cup {CreatedId(s) : s \in {x \in ids : TypeKnown(x)}}

\* CreateSensor: the string it returns.  sensor->Name() on a null sensor is
\* undefined and stands as "garbage".
CreateResult(s) ==
  IF ~TypeKnown(s) THEN ""
  ELSE IF kind[s] = "fails" THEN "garbage" ELSE "name"

\* CreateSensor: renderingSensor->SetScene(...) is called on a null pointer for
\* one of the pending sensors ids.
NullUse(ids) == \E s \in ids : TypeKnown(s) /\ ~Rendering(s)

\* RunLoop: renderUtil.Update(), which creates the pending sensors through
\* the CreateSensor callback.  A call through a null pointer is undefined: the
\* process dies of it, or goes on.  An insertion into sensorIds made while
\* PostUpdate iterates sensorIds is recorded in racedIds.
RenderUpdate ==
  /\ rpc = "render_update"
  /\ sensorIds' = CreateSensor(pending)
  /\ results' = [s \in Sensors |->
                    IF s \in pending THEN CreateResult(s) ELSE results[s]]
  /\ racedIds' = IF ppc = "selecting"
                    THEN racedIds \cup (CreateSensor(pending) \ sensorIds)
                    ELSE racedIds
  /\ pending' = {}
  /\ IF NullUse(pending)
       THEN /\ faults' = faults \cup {"null_handle"}
            /\ \/ rpc' = "render_sensors" /\ UNCHANGED <<ppc, spc, waiters>>
               \/ /\ rpc' = "crashed" /\ ppc' = "crashed" /\ spc' = "crashed"
                  /\ waiters' = {}
       ELSE /\ rpc' = "render_sensors"
            /\ UNCHANGED <<faults, ppc, spc, waiters>>
  /\ UNCHANGED <<running, initialized, scene, doInit, updateAvailable,
                 updateTime, activeSensors, sensorMask, nextUpdate, ecm, seen,
                 renderMutex, localActive, simTime, steps, histVars, stopVars,
                 kind>>

\* The owner of sensorMaskMutex.  PostUpdate holds it during its loop over
\* sensorIds; RunLoop holds it only within its loop over activeSensors.
sensorMaskMutex == IF ppc = "selecting" THEN "producer" ELSE "free"

\* The active sensors whose UpdateRate() is 0.
ZeroRate(act) == {s \in act : kind[s] = "rate0"}

\* RunLoop: common::Time delta(0.9 / sensor->UpdateRate()) with a rate of 0
\* converts an infinite double to an integer, which is undefined: the mask
\* entry comes out later than every time (late) or not later than updateTime.
MaskRateZero(mask, act, t, late) ==
  [s \in Sensors |->
     IF s \in ZeroRate(act) THEN (IF late THEN Forever ELSE t) ELSE mask[s]]

\* RunLoop: sensorMask[sensor->Id()] = updateTime + delta for every active
\* sensor.
MaskActive(mask, act, t) ==
  [s \in Sensors |-> IF s \in act THEN t + MaskDelta(s) ELSE mask[s]]

\* sensorManager.RunOnce(time): every sensor of the manager whose next update
\* time has come produces data and, when its update rate is positive, moves
\* its next update time on by its period.
RunOnce(next, ids, t) ==
  [s \in Sensors |->
     IF s \in ids /\ next[s] <= t /\ kind[s] # "rate0"
       THEN next[s] + Period(s) ELSE next[s]]

\* A render pass that forgets activeSensors.clear().
ActiveNotCleared == activeSensors

\* RunLoop: activeSensors.clear().
ClearedActive == {}

\* RunLoop: if activeSensors is not empty, masks the active sensors under
\* sensorMaskMutex, runs
\* PreRender and RunOnce(updateTime), and clears activeSensors.
RenderSensors ==
  /\ rpc = "render_sensors"
  /\ activeSensors # {} => sensorMaskMutex = "free"
  /\ IF activeSensors # {}
       THEN /\ \E late \in IF ZeroRate(activeSensors) = {} THEN {FALSE} ELSE BOOLEAN :
                 sensorMask' = MaskRateZero(
                                 MaskActive(sensorMask, activeSensors, updateTime),
                                 activeSensors, updateTime, late)
            /\ faults' = IF ZeroRate(activeSensors) = {} THEN faults
                          ELSE faults \cup {"div_by_zero"}
            /\ nextUpdate' = RunOnce(nextUpdate, sensorIds, updateTime)
            /\ activeSensors' = ClearedActive
       ELSE UNCHANGED <<sensorMask, nextUpdate, activeSensors, faults>>
  /\ rendered' = Append(rendered, <<updateTime, activeSensors>>)
  /\ rpc' = "complete"
  /\ UNCHANGED <<running, initialized, scene, doInit, updateAvailable,
                 updateTime, sensorIds, utilVars, renderMutex, waiters, spc,
                 prodVars, submitted, completed, lastSel, selGap,
                 stoppedAtCall,
                 initCount, stopVars, kind, results, racedIds>>

\* RunLoop: updateAvailable = false; lock.unlock().
CompleteCycle ==
  /\ rpc = "complete"
  /\ updateAvailable' = FALSE
  /\ renderMutex' = "free"
  /\ completed' = completed + 1
  /\ rpc' = "cycle_notify"
  /\ UNCHANGED <<running, initialized, scene, doInit, updateTime,
                 activeSensors, sensVars, utilVars, waiters, spc, prodVars,
                 submitted, rendered, lastSel, selGap, stoppedAtCall,
                 initCount, stopVars,
                 inputVars>>

\* RunLoop: renderCv.notify_one() after the unlock, end of the loop body.
CycleNotify ==
  /\ rpc = "cycle_notify"
  /\ waiters' \in NotifyOne(waiters)
  /\ rpc' = "loop_check"
  /\ UNCHANGED <<running, initialized, scene, doInit, updateAvailable,
                 updateTime, activeSensors, sensVars, utilVars, renderMutex,
                 spc, prodVars, histVars, stopVars,
                 inputVars>>

RenderNext ==
  \/ InitLoopCheck
  \/ InitLoopWait
  \/ InitLoopWake
  \/ DoInit
  \/ CompleteInit
  \/ CycleLoopCheck
  \/ TakeCycle
  \/ RenderUpdate
  \/ RenderSensors
  \/ CompleteCycle
  \/ CycleNotify


\* ---------------------------------------------------- the simulation thread
\* The simulation runner calls PostUpdate for the next simulation step.
BeginPostUpdate ==
  /\ ppc = "idle"
  /\ rpc # "not_started"
  /\ steps < MaxSteps
  /\ steps' = steps + 1
  /\ simTime' = simTime + StepDt
  /\ ppc' = "init_check"
  /\ stoppedAtCall' = ~running
  /\ UNCHANGED <<running, initialized, scene, doInit, updateAvailable,
                 updateTime, activeSensors, sensVars, utilVars, renderMutex,
                 waiters, rpc, spc, localActive, submitted, rendered,
                 completed, lastSel, selGap, initCount, stopVars,
                 inputVars>>

\* Between two steps an entity with a rendering sensor component (Camera,
\* DepthCamera, GpuLidar, RgbdCamera) is added to the entity component manager.
AddSensorEntity ==
  /\ ppc = "idle"
  /\ \E s \in Sensors \ ecm : ecm' = ecm \cup {s}
  /\ UNCHANGED <<running, initialized, scene, doInit, updateAvailable,
                 updateTime, activeSensors, sensVars, seen, pending,
                 renderMutex, waiters, rpc, spc, prodVars, histVars, stopVars,
                 inputVars>>

\* An initialization request that is made only once.
InitNeededOnce == ~initialized /\ ~doInit /\ ecm # {}

\* PostUpdate: !initialized && (_ecm.HasComponentType(...) || ...).
InitNeeded == ~initialized /\ ecm # {}

\* PostUpdate: evaluates the condition of the initialization request.
InitCheck ==
  /\ ppc = "init_check"
  /\ ppc' = IF InitNeeded THEN "init_request" ELSE "run_check"
  /\ UNCHANGED <<running, initialized, scene, doInit, updateAvailable,
                 updateTime, activeSensors, sensVars, utilVars, renderMutex,
                 waiters, rpc, spc, localActive, simTime, steps, histVars, stopVars,
                 inputVars>>

\* PostUpdate: the predicate of the wait of the initialization request.
InitPred == ~running \/ ~updateAvailable

\* PostUpdate: locks renderMutex (or re-locks it after a wake-up), waits for
\* the predicate, sets doInit and unlocks.
InitRequest ==
  /\ ppc = "init_request"
  /\ "producer" \notin waiters
  /\ renderMutex = "free"
  /\ IF InitPred
       THEN /\ doInit' = TRUE
            /\ ppc' = "init_notify"
            /\ UNCHANGED waiters
       ELSE /\ waiters' = waiters \cup {"producer"}
            /\ UNCHANGED <<doInit, ppc>>
  /\ UNCHANGED <<running, initialized, scene, updateAvailable, updateTime,
                 activeSensors, sensVars, utilVars, renderMutex, rpc, spc,
                 localActive, simTime, steps, histVars, stopVars,
                 inputVars>>

\* PostUpdate: renderCv.notify_one() after the initialization request.
InitNotify ==
  /\ ppc = "init_notify"
  /\ waiters' \in NotifyOne(waiters)
  /\ ppc' = "run_check"
  /\ UNCHANGED <<running, initialized, scene, doInit, updateAvailable,
                 updateTime, activeSensors, sensVars, utilVars, renderMutex,
                 rpc, spc, localActive, simTime, steps, histVars, stopVars,
                 inputVars>>

\* A step that goes on whenever running is true, initialized or not.
RunReadyNoInit == running

\* PostUpdate: if (running && initialized).
RunReady == running /\ initialized

\* PostUpdate: evaluates running && initialized; when it holds,
\* renderUtil.UpdateFromECM queues the sensor entities it has not handled yet
\* for creation; otherwise PostUpdate returns.
RunCheck ==
  /\ ppc = "run_check"
  /\ IF RunReady
       THEN /\ pending' = pending \cup (ecm \ seen)
            /\ seen' = ecm
            /\ ppc' = "select"
       ELSE /\ ppc' = "idle"
            /\ UNCHANGED <<pending, seen>>
  /\ UNCHANGED <<running, initialized, scene, doInit, updateAvailable,
                 updateTime, activeSensors, sensVars, ecm, renderMutex,
                 waiters, rpc, spc, localActive, simTime, steps, histVars, stopVars,
                 inputVars>>

\* A loop over sensorIds that does not look at the mask.
SelectedUnmasked(ids, mask, next, t) ==
  {s \in ids : s # NoSensor /\ Rendering(s) /\ next[s] <= t}

\* PostUpdate, the loop over sensorIds: a sensor is pushed to the local
\* activeSensors when it has no mask entry later than t, it is a rendering
\* sensor and its next update time is at or before t.
Selected(ids, mask, next, t) ==
  {s \in ids : /\ s # NoSensor
               /\ ~(mask[s] # NoMask /\ mask[s] > t)
               /\ Rendering(s)
               /\ next[s] <= t}

\* PostUpdate, the loop over sensorIds: a mask entry at or before t is erased.
Unmask(ids, mask, t) ==
  [s \in Sensors |->
     IF s \in ids /\ mask[s] # NoMask /\ mask[s] <= t THEN NoMask ELSE mask[s]]

\* PostUpdate: sensorMaskMutex.lock() and the start of the loop over
\* sensorIds.  The render thread holds sensorMaskMutex within one step only,
\* so the lock is free.
SelectBegin ==
  /\ ppc = "select"
  /\ racedIds' = {}
  /\ ppc' = "selecting"
  /\ UNCHANGED <<running, initialized, scene, doInit, updateAvailable,
                 updateTime, activeSensors, sensVars, utilVars, renderMutex,
                 waiters, rpc, spc, localActive, simTime, steps, histVars,
                 stopVars, kind, results, faults>>

\* PostUpdate: the loop over sensorIds under sensorMaskMutex, and the unlock.
\* An identifier inserted into sensorIds while the loop runs is a data race:
\* the loop visits it or not.
Select ==
  /\ ppc = "selecting"
  /\ \E missed \in SUBSET racedIds :
       LET ids == sensorIds \ missed
           sel == Selected(ids, sensorMask, nextUpdate, simTime) IN
         /\ localActive' = sel
         /\ lastSel' = [s \in Sensors |-> IF s \in sel THEN {simTime} ELSE lastSel[s]]
         /\ selGap' = [s \in Sensors |->
                         IF s \in sel /\ lastSel[s] # {}
                           THEN {simTime - t : t \in lastSel[s]} ELSE selGap[s]]
         /\ sensorMask' = Unmask(ids, sensorMask, simTime)
  /\ racedIds' = {}
  /\ ppc' = "submit_check"
  /\ UNCHANGED <<running, initialized, scene, doInit, updateAvailable,
                 updateTime, activeSensors, sensorIds, nextUpdate, utilVars,
                 renderMutex, waiters, rpc, spc, simTime, steps, submitted,
                 rendered, completed, stoppedAtCall,
                 initCount, stopVars, kind, results, faults>>

\* PostUpdate: if (activeSensors.size() || renderUtil.PendingSensors() > 0).
SubmitCheck ==
  /\ ppc = "submit_check"
  /\ IF localActive # {} \/ pending # {}
       THEN ppc' = "submit" /\ UNCHANGED localActive
       ELSE ppc' = "idle" /\ localActive' = {}
  /\ UNCHANGED <<running, initialized, scene, doInit, updateAvailable,
                 updateTime, activeSensors, sensVars, utilVars, renderMutex,
                 waiters, rpc, spc, simTime, steps, histVars, stopVars,
                 inputVars>>

\* A submission that forgets to notify the render thread.
SubmitNoNotify(w) == {w}

\* PostUpdate: renderCv.notify_one() at the end of a submission, lock held.
SubmitNotify(w) == NotifyOne(w)

\* A submission that never waits for the previous cycle to be consumed.
SubmitPredNoWait == TRUE

\* PostUpdate: the predicate of the wait of a submission.
SubmitPred == ~running \/ ~updateAvailable

\* A submission that forgets updateTime = t.
InstalledStaleTime == <<localActive, updateTime>>

\* PostUpdate: the values a submission installs as the pending cycle:
\* activeSensors = std::move(activeSensors); updateTime = t.
Installed == <<localActive, simTime>>

\* PostUpdate: locks renderMutex (or re-locks it after a wake-up) and waits
\* for the predicate; returns when running is false; otherwise installs the
\* cycle, sets updateAvailable and notifies.
Submit ==
  /\ ppc = "submit"
  /\ "producer" \notin waiters
  /\ renderMutex = "free"
  /\ IF ~SubmitPred
       THEN /\ waiters' = waiters \cup {"producer"}
            /\ UNCHANGED <<activeSensors, updateTime, updateAvailable, ppc,
                           localActive, submitted>>
       ELSE IF ~running
         THEN /\ ppc' = "idle"
              /\ localActive' = {}
              /\ UNCHANGED <<activeSensors, updateTime, updateAvailable,
                             waiters, submitted>>
         ELSE /\ activeSensors' = Installed[1]
              /\ updateTime' = Installed[2]
              /\ updateAvailable' = TRUE
              /\ waiters' \in SubmitNotify(waiters)
              /\ submitted' = Append(submitted, <<simTime, localActive>>)
              /\ ppc' = "idle"
              /\ localActive' = {}
  /\ UNCHANGED <<running, initialized, scene, doInit, sensVars, utilVars,
                 renderMutex, rpc, spc, simTime, steps, rendered, completed,
                 lastSel, selGap, stoppedAtCall,
                 initCount, stopVars,
                 inputVars>>

ProducerNext ==
  \/ BeginPostUpdate
  \/ InitCheck
  \/ InitRequest
  \/ InitNotify
  \/ RunCheck
  \/ SelectBegin
  \/ Select
  \/ SubmitCheck
  \/ Submit

\* ------------------------------------------------------------------- Stop
\* Stop: locks renderMutex, sets running to false and unlocks.
StopSet ==
  /\ spc \in {"idle", "done"}
  /\ stopCalls < MaxStops
  /\ rpc # "not_started"
  /\ renderMutex = "free"
  /\ running' = FALSE
  /\ stopCalls' = stopCalls + 1
  /\ spc' = "notify"
  /\ UNCHANGED <<initialized, scene, doInit, updateAvailable, updateTime,
                 activeSensors, sensVars, utilVars, renderMutex, waiters, rpc,
                 prodVars, histVars, joinable,
                 inputVars>>

\* A Stop that notifies nobody.
StopWakeNone(w) == w

\* Stop: renderCv.notify_all().
StopWake(w) == {}

\* Stop: notifies every waiter.
StopNotify ==
  /\ spc = "notify"
  /\ waiters' = StopWake(waiters)
  /\ spc' = "join"
  /\ UNCHANGED <<running, initialized, scene, doInit, updateAvailable,
                 updateTime, activeSensors, sensVars, utilVars, renderMutex,
                 rpc, prodVars, histVars, stopVars,
                 inputVars>>

\* A Stop that joins the render thread without asking whether it is joinable.
JoinNeededAlways == TRUE

\* Stop: if (renderThread.joinable()).
JoinNeeded == joinable

\* Stop: joins the render thread when it is joinable; join() returns once
\* RunLoop has returned and leaves the thread not joinable.  Calling join() on
\* a thread that is not joinable throws std::system_error.
StopJoin ==
  /\ spc = "join"
  /\ IF JoinNeeded
       THEN IF joinable
              THEN rpc = "done" /\ joinable' = FALSE /\ spc' = "done"
              ELSE spc' = "error" /\ UNCHANGED joinable
       ELSE spc' = "done" /\ UNCHANGED joinable
  /\ UNCHANGED <<running, initialized, scene, doInit, updateAvailable,
                 updateTime, activeSensors, sensVars, utilVars, renderMutex,
                 waiters, rpc, prodVars, histVars, stopCalls,
                 inputVars>>

StopNext ==
  \/ StopNotify
  \/ StopJoin

\* std::condition_variable::wait may return without a notification.
SpuriousWakeup ==
  /\ \E th \in waiters : waiters' = waiters \ {th}
  /\ UNCHANGED <<running, initialized, scene, doInit, updateAvailable,
                 updateTime, activeSensors, sensVars, utilVars, renderMutex,
                 rpc, spc, prodVars, histVars, stopVars,
                 inputVars>>

Next ==
  \/ Configure
  \/ RenderNext
  \/ ProducerNext
  \/ AddSensorEntity
  \/ StopSet
  \/ StopNext
  \/ SpuriousWakeup

Spec == Init /\ [][Next]_vars

\* The same program with sensor entities of every kind.
KindSpec == InitAnyKind /\ [][Next]_vars

\* Every thread that can take a step eventually takes one; whether Stop is
\* called, whether an entity is added and whether a wait wakes spuriously is
\* left open.
FairSpec ==
  /\ Spec
  /\ WF_vars(RenderNext)
  /\ WF_vars(ProducerNext)
  /\ WF_vars(StopNext)

\* The simulation runner calls PostUpdate for a step that is not counted in
\* steps: as long as the worker has not initialized, the runner keeps stepping
\* without bound (simTime is read only once initialized is true).
BeginUncountedPostUpdate ==
  /\ ppc = "idle"
  /\ rpc # "not_started"
  /\ ~initialized
  /\ ppc' = "init_check"
  /\ stoppedAtCall' = ~running
  /\ UNCHANGED <<running, initialized, scene, doInit, updateAvailable,
                 updateTime, activeSensors, sensVars, utilVars, renderMutex,
                 waiters, rpc, spc, localActive, simTime, steps, submitted,
                 rendered, completed, lastSel, selGap, initCount, stopVars,
                 inputVars>>

LiveNext ==
  \/ Next
  \/ BeginUncountedPostUpdate

\* The specification in which the producer keeps executing simulation steps
\* until the worker has initialized, every thread being scheduled fairly.  The
\* producer is not starved of renderMutex by a worker that wakes up spuriously
\* for ever: a step it can take again and again it eventually takes.
LiveSpec ==
  /\ Init
  /\ [][LiveNext]_vars
  /\ WF_vars(RenderNext)
  /\ SF_vars(ProducerNext \/ BeginUncountedPostUpdate)
  /\ WF_vars(StopNext)

TypeOK ==
  /\ running \in BOOLEAN /\ initialized \in BOOLEAN /\ scene \in BOOLEAN
  /\ doInit \in BOOLEAN /\ updateAvailable \in BOOLEAN
  /\ activeSensors \subseteq Sensors
  /\ sensorIds \subseteq Sensors \cup {NoSensor}
  /\ kind \in [Sensors -> Kinds]
  /\ racedIds \subseteq sensorIds
  /\ faults \subseteq {"null_handle", "div_by_zero"}
  /\ waiters \subseteq Threads
  /\ renderMutex \in {"free", "render"}


\* ------------------------------------------------------------------ claims
IsPrefix(a, b) == Len(a) <= Len(b) /\ \A i \in 1..Len(a) : a[i] = b[i]

\* C1: single-flight.  At most one submitted cycle is not yet completed; a
\* render pass is under way only for the one outstanding cycle, whose
\* updateAvailable is still true; and the worker has read at most one cycle
\* beyond the completed ones.
C1_SingleFlight ==
  /\ Len(submitted) - completed \in {0, 1}
  /\ Len(rendered) - completed \in {0, 1}
  /\ updateAvailable => Len(submitted) = completed + 1
  /\ rpc \in RenderPass => updateAvailable /\ renderMutex = "render"
  /\ Len(rendered) <= Len(submitted)

\* The producer wants to submit the next cycle while the worker still renders
\* the previous one.
C1_Witness ==
  /\ ppc = "submit"
  /\ rpc \in RenderPass
  /\ Len(submitted) >= 1

\* C2: no lost cycle.  A submitted cycle that is not yet completed is
\* eventually completed by a render pass, unless Stop sets running to false;
\* and no render pass completes without a submitted cycle of its own.
C2_NoLostCycle ==
  /\ [](completed <= Len(submitted))
  /\ (Len(submitted) > completed) ~> (Len(submitted) = completed \/ ~running)

\* Two cycles were submitted and completed while running.
C2_Witness ==
  /\ running
  /\ completed >= 2
  /\ Len(submitted) = completed

\* C3: mask monotonicity.  A sensor selected at time t is not selected again
\* at a time before t + 0.9/rate.
C3_MaskMonotonic ==
  \A s \in Sensors : \A gap \in selGap[s] : gap >= MaskDelta(s)

\* C4: init-before-cycle.  A render pass is under way, or a cycle has been
\* submitted, only after the initialization completed: initialized is true
\* and the scene is resolved.
C4_InitBeforeCycle ==
  /\ rpc \in RenderPass => initialized /\ scene
  /\ (updateAvailable \/ Len(submitted) > 0) => initialized /\ scene

\* Initialization was requested and the worker renders a cycle.
C4_Witness ==
  /\ doInit
  /\ rpc \in RenderPass


\* C5: Stop during the init phase.  In a run in which no sensor entity ever
\* exists, once Stop is called while the render thread is in its wait-for-init
\* phase, the render thread exits and the join of Stop returns.
C5_StopDuringInit ==
  [](ecm = {}) =>
    ((spc # "idle" /\ rpc \in InitPhase) ~> (rpc = "done" /\ spc = "done"))

\* C6: Stop during the cycle loop.  When running is false while the worker is
\* blocked waiting for a cycle, the worker's next step out of that wait is its
\* exit from the loop, never a render pass, and it does exit.
C6_StopDuringCycleWait ==
  /\ [][(rpc = "cycle_wait" /\ ~running) => rpc' \in {"cycle_wait", "done"}]_vars
  /\ (rpc = "cycle_wait" /\ ~running) ~> (rpc = "done")

\* Stop has set running to false and notified while the initialized worker was
\* blocked waiting for a cycle; the worker is woken and about to return.
C6_Witness ==
  /\ rpc = "cycle_wait"
  /\ "render" \notin waiters
  /\ initialized
  /\ spc = "join"

C8_SubmissionOrder ==
  running => IsPrefix(rendered, submitted)

\* Two cycles were rendered, one of them with a selected sensor.
C8_Witness ==
  /\ running
  /\ Len(rendered) >= 2
  /\ \E i \in 1..Len(rendered) : rendered[i][2] # {}

\* C9: a PostUpdate call made after Stop has set running to false leaves the
\* coordinator state unchanged.
C9_NoOpAfterStop ==
  [][(stoppedAtCall /\ ProducerNext) => UNCHANGED coordinator]_vars

\* C10: Stop wakes a blocked producer.  A producer in a cycle submission when
\* running is false returns to the caller, and nothing is installed once
\* running is false.
C10_StopWakesProducer ==
  /\ [][~running => (submitted' = submitted /\ updateTime' = updateTime
                      /\ (updateAvailable' => updateAvailable))]_vars
  /\ (ppc = "submit" /\ ~running) ~> (ppc = "idle")

\* The producer is blocked on the condition variable in a submission, Stop has
\* set running to false and not yet notified.
C10_Witness ==
  /\ ppc = "submit"
  /\ "producer" \in waiters
  /\ ~running
  /\ spc = "notify"


\* The state a call of Stop may change besides its own position and count.
stopFrame == <<running, initialized, scene, doInit, updateAvailable,
               updateTime, activeSensors, sensVars, utilVars, renderMutex,
               waiters, rpc, prodVars, histVars, joinable>>

\* C11: Stop is idempotent.  Every step of a call of Stop made after an
\* earlier call has returned leaves the state as the first call left it
\* (running false, thread joined), and the call returns without joining again.
C11_StopIdempotent ==
  /\ [][((stopCalls >= 1 /\ StopSet) \/ (stopCalls >= 2 /\ StopNext))
          => UNCHANGED stopFrame]_vars
  /\ [](spc # "error")
  /\ [](stopCalls >= 2 => ~running /\ ~joinable /\ rpc = "done")

\* A second call of Stop has returned.
C11_Witness ==
  /\ stopCalls = 2
  /\ spc = "done"

\* C12: lazy one-time initialization.  The worker runs the initialization at
\* most once, only after doInit was set, and never when no entity with a
\* rendering sensor component exists.
C12_LazyInitOnce ==
  /\ initCount <= 1
  /\ initCount >= 1 => doInit
  /\ ecm = {} => initCount = 0
  /\ initialized <=> initCount = 1

\* The worker initialized once and was woken again in its lifetime: it
\* rendered a cycle and was then stopped.
C12_Witness ==
  /\ initCount = 1
  /\ completed >= 1
  /\ rpc = "done"


\* C15: no cycle after stop.  Once running is false the worker never begins
\* a render pass, whether or not a submitted cycle is still pending.
C15_NoCycleAfterStop ==
  [][~running => ~(rpc \notin RenderPass /\ rpc' \in RenderPass)]_vars

\* The worker has left RunLoop after Stop while a submitted cycle was still
\* pending.
C15_Witness ==
  /\ ~running
  /\ updateAvailable
  /\ rpc = "done"

\* C16: the selected-sensor list is not retained across cycles.  At the end of
\* a render pass, and whenever no cycle is outstanding, activeSensors is empty.
C16_ActiveNotRetained ==
  (rpc = "complete" \/ ~updateAvailable) => activeSensors = {}

\* The worker has just completed a cycle that had a selected sensor.
C16_Witness ==
  /\ rpc = "cycle_notify"
  /\ ~updateAvailable
  /\ Len(rendered) >= 1
  /\ rendered[Len(rendered)][2] # {}


\* C19: eventual initialization.  When an entity with a rendering sensor
\* component exists and the producer keeps executing steps, the worker
\* eventually completes the initialization, unless running becomes false.
C19_EventualInit ==
  (ecm # {} /\ running) ~> (initialized \/ ~running)

\* The producer has issued an initialization notification while the worker was
\* not yet waiting on the condition variable.
C19_Witness ==
  /\ running
  /\ doInit
  /\ ~initialized
  /\ ppc = "idle"
  /\ rpc = "init_lock"

\* C13: a descriptor of type NONE creates nothing.  A scene update whose
\* pending descriptors all have the type NONE leaves sensorIds, sensorMask and
\* the sensors of the sensor manager as they are, and CreateSensor returns the
\* empty string for each of them.
C13_NoneCreatesNothing ==
  [][(/\ rpc = "render_update"
      /\ rpc' # "render_update"
      /\ pending # {}
      /\ \A s \in pending : kind[s] = "none")
     => /\ UNCHANGED <<sensorIds, sensorMask, nextUpdate>>
        /\ \A s \in pending : results'[s] = ""
        /\ faults' = faults]_vars

\* CreateSensor has returned the empty string for a descriptor of type NONE
\* and the render pass went on.
C13_Witness ==
  /\ \E s \in Sensors : kind[s] = "none" /\ results[s] = ""
  /\ rpc = "render_sensors"

\* C14: a sensor whose update rate is 0 is never due.  It is never selected
\* by PostUpdate, never part of a cycle handed to the worker, and 0.9 divided
\* by its rate is never evaluated.
C14_ZeroRateNeverDue ==
  /\ \A s \in Sensors : kind[s] = "rate0" => lastSel[s] = {} /\ s \notin activeSensors
  /\ "div_by_zero" \notin faults

\* C20: CreateSensor never uses a missing handle.  No member of a null
\* rendering sensor or sensor is used, and sensorIds holds neither NO_SENSOR
\* nor the identifier of a sensor that is not a rendering sensor.
C20_NoMissingHandle ==
  /\ "null_handle" \notin faults
  /\ NoSensor \notin sensorIds
  /\ \A s \in sensorIds \ {NoSensor} : Rendering(s)

\* C18: registry access is race-free.  The render thread never inserts an
\* identifier into sensorIds while the loop of PostUpdate over sensorIds runs.
C18_RegistryRaceFree == racedIds = {}

\* C17: the rule of the frame selector.  When the loop of PostUpdate over
\* sensorIds ends at time t, a registered sensor is in the local activeSensors
\* if and only if it is a rendering sensor, its next update time is at or
\* before t and it has no mask entry later than t; every mask entry at or
\* before t is erased and every other one is left as it is.
C17_SelectorRule ==
  [][(ppc = "selecting" /\ ppc' = "submit_check")
     => /\ \A s \in sensorIds :
             s \in localActive' <=>
               /\ s # NoSensor
               /\ Rendering(s)
               /\ nextUpdate[s] <= simTime
               /\ ~(sensorMask[s] # NoMask /\ sensorMask[s] > simTime)
        /\ localActive' \subseteq sensorIds
        /\ \A s \in Sensors :
             sensorMask'[s] = IF sensorMask[s] # NoMask /\ sensorMask[s] <= simTime
                                THEN NoMask ELSE sensorMask[s]]_vars
====
